---- MODULE Spec2Model ----
(***************************************************************************)
(* A model of move.rAIght: the repetition tracker (RepetitionsHandler),    *)
(* the angle computation (AnglesProcessor) and the two applications that   *)
(* drive them (LiveAnalysisApp.run, VideoAnalysisApp.run).                 *)
(*                                                                         *)
(* Numbers.  The program computes in IEEE doubles through numpy.  A value  *)
(* is modelled as a record [k, n, d]: k = "num" is the rational n/d in     *)
(* lowest terms with d > 0, k = "inf" is +inf (n = 1) or -inf (n = -1),    *)
(* k = "nan" is NaN.  Angles of the model are whole degrees, for which     *)
(* the comparisons the program makes (>= 1.0, <= 0.0, clip) give the same  *)
(* answer in doubles as in exact arithmetic.  The one place where the     *)
(* rounding of doubles decides the result, the cosine of collinear bones,  *)
(* is computed on the float64 significands.                                *)
(***************************************************************************)
EXTENDS Integers, Sequences, FiniteSets, TLC

VARIABLES
    \* RepetitionsHandler fields
    state, repetitions, progress,
    \* the exercise's phase table (self.start_angles, self.finish_angles)
    startAngles, finishAngles,
    \* the calls made on the handler: the progress arguments of update, the
    \* last two calls of load_data with their results, whether a call raised
    hist, loads, raised,
    \* an application's run: its position in run(), the arguments and the
    \* configuration it was started with, the frames of its input, the number
    \* of frames read from the current capture and the number of captures
    \* opened
    pc, opts, input, pos, passes,
    \* the processors' collected data, the values of the frame being
    \* processed, the values last handed to the visualizer
    jointsData, anglesData, cur, shown,
    \* the segments, the number of them compared so far and the results sink
    \* of the video analysis
    segments, compared, results,
    \* self.reference_segment of the video application and the number of times
    \* it was loaded
    reference,
    \* what the run reported: the exception that left run(), numpy's
    \* RuntimeWarning, the critical log, the files written
    exc, fpWarned, logged, saved

handlerVars == <<state, repetitions, progress>>
tableVars   == <<startAngles, finishAngles>>
harnessVars == <<hist, loads, raised>>
runVars     == <<pc, opts, input, pos, passes>>
dataVars    == <<jointsData, anglesData, cur, shown>>
videoVars   == <<segments, compared, results, reference>>
reportVars  == <<exc, fpWarned, logged, saved>>
appVars     == <<runVars, dataVars, videoVars, reportVars>>
vars == <<handlerVars, tableVars, harnessVars, appVars>>

----------------------------------------------------------------------------
(* Bounds of the model *)

\* the longest series of update calls the harness makes
MaxFrames == 6

\* the rep count at which the frame-driven specifications stop taking frames
MaxReps == 2

\* the longest initial hold of the ramp scenario, in frames
MaxHold == 5

\* the most frames an input video holds
MaxInput == 3

\* the most captures a looping live run opens
MaxPasses == 2

\* the repetitions of the longest video whose segments are compared
MaxSegments == 3

\* the longest bone of a frame handed to the angles processor, in steps of
\* the grid of its joints
MaxScale == 2

\* the frames handed to the angles processor one after the other
MaxCalls == 2

----------------------------------------------------------------------------
(* IEEE / numpy arithmetic *)

Abs(x) == IF x < 0 THEN -x ELSE x

Sign(x) == IF x < 0 THEN -1 ELSE IF x > 0 THEN 1 ELSE 0

RECURSIVE GCD(_, _)
GCD(a, b) == IF b = 0 THEN a ELSE GCD(b, a % b)

NaN == [k |-> "nan", n |-> 0, d |-> 1]

Inf(s) == [k |-> "inf", n |-> s, d |-> 1]

\* the rational n/d (d # 0) in lowest terms
Num(n, d) ==
    LET g == GCD(Abs(n), Abs(d))
        s == IF d < 0 THEN -1 ELSE 1
    IN  [k |-> "num", n |-> (s * n) \div g, d |-> (s * d) \div g]

R(i) == Num(i, 1)

IsNaN(a) == a.k = "nan"

\* a - b
RSub(a, b) ==
    IF IsNaN(a) \/ IsNaN(b) THEN NaN
    ELSE IF a.k = "num" /\ b.k = "num" THEN Num(a.n * b.d - b.n * a.d, a.d * b.d)
    ELSE IF a.k = "inf" /\ b.k = "inf"
         THEN (IF a.n = b.n THEN NaN ELSE a)
    ELSE IF a.k = "inf" THEN a
    ELSE Inf(-b.n)

\* a + b
RAdd(a, b) ==
    IF IsNaN(a) \/ IsNaN(b) THEN NaN
    ELSE IF a.k = "num" /\ b.k = "num" THEN Num(a.n * b.d + b.n * a.d, a.d * b.d)
    ELSE IF a.k = "inf" /\ b.k = "inf"
         THEN (IF a.n = b.n THEN a ELSE NaN)
    ELSE IF a.k = "inf" THEN a
    ELSE b

\* a / b as numpy divides doubles: x/0 is +-inf, 0/0 is NaN (a RuntimeWarning,
\* no exception)
RDiv(a, b) ==
    IF IsNaN(a) \/ IsNaN(b) THEN NaN
    ELSE IF a.k = "num" /\ b.k = "num"
         THEN (IF b.n = 0
               THEN (IF a.n = 0 THEN NaN ELSE Inf(Sign(a.n)))
               ELSE Num(a.n * b.d, a.d * b.n))
    ELSE IF a.k = "inf" /\ b.k = "inf" THEN NaN
    ELSE IF a.k = "inf" THEN Inf(IF b.n < 0 THEN -a.n ELSE a.n)
    ELSE R(0)

\* a <= b; every comparison with NaN is False
RLeq(a, b) ==
    IF IsNaN(a) \/ IsNaN(b) THEN FALSE
    ELSE IF a.k = "num" /\ b.k = "num" THEN a.n * b.d <= b.n * a.d
    ELSE IF a.k = "inf" THEN (a.n = -1 \/ (b.k = "inf" /\ b.n = 1))
    ELSE b.n = 1

RGeq(a, b) == RLeq(b, a)

RLt(a, b) == RLeq(a, b) /\ ~RLeq(b, a)

\* np.clip(x, lo, hi) = minimum(maximum(x, lo), hi); NaN stays NaN
Clip(x, lo, hi) ==
    IF IsNaN(x) THEN NaN
    ELSE IF RLeq(x, lo) THEN lo
    ELSE IF RLeq(hi, x) THEN hi
    ELSE x

RECURSIVE RSum(_)
RSum(s) == IF s = <<>> THEN R(0) ELSE RAdd(Head(s), RSum(Tail(s)))

\* np.mean of a one-dimensional array
Mean(s) == RDiv(RSum(s), R(Len(s)))

----------------------------------------------------------------------------
(* RepetitionsHandler *)

\* A Python dict keeps insertion order: a phase's table is the sequence of its
\* (angle name, reference value) items.
Keys(t) == [i \in 1..Len(t) |-> t[i].name]

Values(t) == [i \in 1..Len(t) |-> t[i].value]

\* the span reversed (finish - start)
ReferenceProgress_Reversed(start_reference_angles, finish_reference_angles) ==
    RSub(finish_reference_angles[1], start_reference_angles[1])

\* reference_progress = start_reference_angles[0] - finish_reference_angles[0];
\* each array is in the order of its own table
ReferenceProgress(start_reference_angles, finish_reference_angles) ==
    RSub(start_reference_angles[1], finish_reference_angles[1])

\* progress_normalized = np.mean(start_reference_angles - data_angles)
\*                       / reference_progress
ProgressNormalized(start_reference_angles, data_angles, reference_progress) ==
    RDiv(Mean([i \in 1..Len(start_reference_angles) |->
                  RSub(start_reference_angles[i], data_angles[i])]),
         reference_progress)

\* RepetitionsHandler.load_data(data): data is a dict angle name -> value.
\* exc = "KeyError" when data lacks a name of the start table.
LoadData(start, finish, data) ==
    LET reference_angle_names == Keys(start)
        start_reference_angles == Values(start)
        finish_reference_angles == Values(finish)
    IN  IF \E i \in 1..Len(start) : reference_angle_names[i] \notin DOMAIN data
        THEN [exc |-> "KeyError", value |-> NaN]
        ELSE LET data_angles == [i \in 1..Len(start) |->
                                    data[reference_angle_names[i]]]
                 reference_progress ==
                     ReferenceProgress(start_reference_angles,
                                       finish_reference_angles)
             IN  [exc |-> "none",
                  value |-> Clip(ProgressNormalized(start_reference_angles,
                                                    data_angles,
                                                    reference_progress),
                                 R(0), R(1))]

\* update with strict comparisons (> 1.0, < 0.0)
UpdateState_Strict(h, p) ==
    IF RLt(R(1), p) /\ h.state = "up"
    THEN [state |-> "down", repetitions |-> h.repetitions, progress |-> p]
    ELSE IF RLt(p, R(0)) /\ h.state = "down"
    THEN [state |-> "up", repetitions |-> h.repetitions + 1, progress |-> p]
    ELSE [state |-> h.state, repetitions |-> h.repetitions, progress |-> p]

\* update that counts the repetition when the finish extreme is reached
UpdateState_CountsOnDown(h, p) ==
    IF RGeq(p, R(1)) /\ h.state = "up"
    THEN [state |-> "down", repetitions |-> h.repetitions + 1, progress |-> p]
    ELSE IF RLeq(p, R(0)) /\ h.state = "down"
    THEN [state |-> "up", repetitions |-> h.repetitions, progress |-> p]
    ELSE [state |-> h.state, repetitions |-> h.repetitions, progress |-> p]

\* update without hysteresis: every frame at the start extreme counts
UpdateState_NoHysteresis(h, p) ==
    IF RGeq(p, R(1))
    THEN [state |-> "down", repetitions |-> h.repetitions, progress |-> p]
    ELSE IF RLeq(p, R(0))
    THEN [state |-> "up", repetitions |-> h.repetitions + 1, progress |-> p]
    ELSE [state |-> h.state, repetitions |-> h.repetitions, progress |-> p]

\* RepetitionsHandler.update(progress) on the handler h = [state, repetitions,
\* progress]
UpdateState(h, p) ==
    IF RGeq(p, R(1)) /\ h.state = "up"
    THEN [state |-> "down", repetitions |-> h.repetitions, progress |-> p]
    ELSE IF RLeq(p, R(0)) /\ h.state = "down"
    THEN [state |-> "up", repetitions |-> h.repetitions + 1, progress |-> p]
    ELSE [state |-> h.state, repetitions |-> h.repetitions, progress |-> p]

\* RepetitionsHandler.__init__
NewHandler == [state |-> "up", repetitions |-> 0, progress |-> R(0)]

Handler == [state |-> state, repetitions |-> repetitions, progress |-> progress]

IsHandler(h) ==
    /\ state = h.state
    /\ repetitions = h.repetitions
    /\ progress = h.progress

SetHandler(h) ==
    /\ state' = h.state
    /\ repetitions' = h.repetitions
    /\ progress' = h.progress

----------------------------------------------------------------------------
(* The handler called directly: update(progress) for any progress value *)

Item(name, v) == [name |-> name, value |-> R(v)]

\* one tracked angle, start 170 degrees, finish 90 degrees
KneeTable == [start |-> <<Item("knee", 170)>>, finish |-> <<Item("knee", 90)>>]

ProgressVals == {Num(-1, 2), R(0), Num(1, 2), R(1), Num(3, 2), NaN}

NoFrame == [detected |-> FALSE, joints |-> <<>>, angles |-> <<>>, progress |-> R(0)]

NothingShown == [frame |-> 0, progress |-> R(0), repetitions |-> 0, state |-> "up"]

NoOpts ==
    [app |-> "none", save_results |-> FALSE, loop |-> FALSE, angle_names |-> <<>>]

\* no reference segment is loaded
NoReference == [loads |-> 0, loaded |-> FALSE, frames |-> {}]

\* the processors, the sinks and the reports of a run that has not started
FreshRun ==
    /\ pos = 0
    /\ passes = 0
    /\ jointsData = <<>>
    /\ anglesData = <<>>
    /\ cur = NoFrame
    /\ shown = NothingShown
    /\ segments = <<>>
    /\ compared = 0
    /\ results = <<>>
    /\ reference = NoReference
    /\ exc = "none"
    /\ fpWarned = FALSE
    /\ logged = FALSE
    /\ saved = {}

\* no application runs: the handler is called directly
NoApp ==
    /\ pc = "none"
    /\ opts = NoOpts
    /\ input = <<>>
    /\ FreshRun

HandlerInit ==
    /\ NoApp
    /\ IsHandler(NewHandler)
    /\ startAngles = KneeTable.start
    /\ finishAngles = KneeTable.finish
    /\ hist = <<>>
    /\ loads = <<>>
    /\ raised = FALSE

\* one call handler.update(p)
CallUpdate(p) ==
    /\ Len(hist) < MaxFrames
    /\ SetHandler(UpdateState(Handler, p))
    /\ hist' = Append(hist, p)
    /\ UNCHANGED <<tableVars, loads, raised, appVars>>

HandlerNext == \E p \in ProgressVals : CallUpdate(p)

SpecHandler == HandlerInit /\ [][HandlerNext]_vars

----------------------------------------------------------------------------
(* Claims about update *)

AtFinish(p) == RGeq(p, R(1))

AtStart(p) == RLeq(p, R(0))

\* C1: the handler starts UP with 0 reps, and every call update(p) takes
\* UP to DOWN (count unchanged) when p >= 1.0, DOWN to UP (count + 1) when
\* p <= 0.0, and changes neither state nor count otherwise.
C1_UpdateContract ==
    /\ (state = "up" /\ repetitions = 0)
    /\ [][Len(hist') = Len(hist) + 1 =>
            LET p == hist'[Len(hist')]
            IN  IF state = "up" /\ AtFinish(p)
                THEN state' = "down" /\ repetitions' = repetitions
                ELSE IF state = "down" /\ AtStart(p)
                THEN state' = "up" /\ repetitions' = repetitions + 1
                ELSE state' = state /\ repetitions' = repetitions]_vars

\* both transitions and a call that changes nothing have happened
C1_Witness ==
    /\ Len(hist) >= 4
    /\ repetitions = 1
    /\ state = "down"
    /\ hist[Len(hist)] = Num(1, 2)

\* The extremes a series reaches, in order: "H" for a frame at the finish
\* extreme (>= 1.0), "L" for a frame at the start extreme (<= 0.0); frames in
\* between (and NaN frames) reach neither.
RECURSIVE Extremes(_)
Extremes(h) ==
    IF h = <<>> THEN <<>>
    ELSE IF AtFinish(Head(h)) THEN <<"H">> \o Extremes(Tail(h))
    ELSE IF AtStart(Head(h)) THEN <<"L">> \o Extremes(Tail(h))
    ELSE Extremes(Tail(h))

\* repeated frames at an extreme already reached are one visit
RECURSIVE Collapse(_)
Collapse(e) ==
    IF Len(e) <= 1 THEN e
    ELSE IF e[1] = e[2] THEN Collapse(Tail(e))
    ELSE <<e[1]>> \o Collapse(Tail(e))

\* the series before its first visit of the finish extreme is no excursion
RECURSIVE FromFirstHigh(_)
FromFirstHigh(e) ==
    IF e = <<>> THEN <<>>
    ELSE IF Head(e) = "H" THEN e
    ELSE FromFirstHigh(Tail(e))

\* the number of full excursions (to >= 1.0 and back to <= 0.0) of a series
Excursions(h) == Len(Collapse(FromFirstHigh(Extremes(h)))) \div 2

\* C2: after any series of frames the rep count is the number of full
\* excursions of the series, whatever frames strictly between the extremes,
\* repeated frames at an extreme, or NaN frames are interleaved.
C2_CountIsExcursions == repetitions = Excursions(hist)

\* two excursions with a frame in between and a repeated extreme
C2_Witness ==
    /\ repetitions = 2
    /\ \E i \in 1..Len(hist) : hist[i] = Num(1, 2)
    /\ \E i \in 1..(Len(hist) - 1) : hist[i] = hist[i + 1] /\ AtFinish(hist[i])

----------------------------------------------------------------------------
(* The handler driven by frames: update(load_data(angles)) *)

\* two tracked angles, listed in the same order in both phases
KneeHipTable ==
    [start  |-> <<Item("knee", 170), Item("hip", 170)>>,
     finish |-> <<Item("knee", 90), Item("hip", 130)>>]

\* the same values, the finish phase listing its angles in another order
KneeHipSwappedTable ==
    [start  |-> <<Item("knee", 170), Item("hip", 170)>>,
     finish |-> <<Item("hip", 130), Item("knee", 90)>>]

\* one tracked angle that grows from start to finish
RiseTable == [start |-> <<Item("knee", 90)>>, finish |-> <<Item("knee", 170)>>]

\* the first listed angle has the same value at both phases
StaticFirstTable ==
    [start  |-> <<Item("hip", 170), Item("knee", 170)>>,
     finish |-> <<Item("hip", 170), Item("knee", 90)>>]

PhaseTables ==
    {KneeTable, KneeHipTable, KneeHipSwappedTable, RiseTable, StaticFirstTable}

AngleNames == {"knee", "hip"}

AngleVals == {R(50), R(90), R(130), R(170), R(190), NaN}

\* the angles of one frame: a dict angle name -> value
DataDicts == UNION {[D -> AngleVals] : D \in SUBSET AngleNames}

\* the last two entries of a log
LastTwo(s) == IF Len(s) <= 2 THEN s ELSE SubSeq(s, Len(s) - 1, Len(s))

ProgressInit ==
    /\ NoApp
    /\ IsHandler(NewHandler)
    /\ \E t \in PhaseTables :
          startAngles = t.start /\ finishAngles = t.finish
    /\ hist = <<>>
    /\ loads = <<>>
    /\ raised = FALSE

\* progress = load_data(angles); update(progress).  A KeyError of load_data
\* leaves the handler as it is and propagates.
LoadFrame(data) ==
    /\ ~raised
    /\ repetitions < MaxReps
    /\ \E r \in {LoadData(startAngles, finishAngles, data)} :
           /\ loads' = LastTwo(Append(loads, [data |-> data, exc |-> r.exc,
                                              value |-> r.value]))
           /\ IF r.exc = "none"
              THEN SetHandler(UpdateState(Handler, r.value)) /\ raised' = raised
              ELSE UNCHANGED handlerVars /\ raised' = TRUE
    /\ UNCHANGED <<tableVars, hist, appVars>>

ProgressNext == \E data \in DataDicts : LoadFrame(data)

SpecProgress == ProgressInit /\ [][ProgressNext]_vars

----------------------------------------------------------------------------
(* Claims about load_data *)

\* the finish-phase value of the angle called name
FinishOf(name) ==
    LET i == CHOOSE j \in 1..Len(finishAngles) : finishAngles[j].name = name
    IN  finishAngles[i].value

\* every angle of the start table has a number in the frame
Measured(data) ==
    \A i \in 1..Len(startAngles) :
        /\ startAngles[i].name \in DOMAIN data
        /\ data[startAngles[i].name].k = "num"

\* sum over the configured angles, in start-table order, of S[i] - D[i], in
\* whole degrees
RECURSIVE SumOfDrops(_, _)
SumOfDrops(data, i) ==
    IF i = 0 THEN 0
    ELSE (startAngles[i].value.n - data[startAngles[i].name].n)
         + SumOfDrops(data, i - 1)

\* the span S[0] - F[0] of the first listed angle, in whole degrees
FirstAngleSpan == startAngles[1].value.n - FinishOf(startAngles[1].name).n

\* clamp(mean(S[i] - D[i]) / (S[0] - F[0]), 0, 1) computed on integers:
\* mean / span = sum / (count * span)
ClampedRatio(sum, den) ==
    IF sum * Sign(den) <= 0 THEN R(0)
    ELSE IF Abs(sum) >= Abs(den) THEN R(1)
    ELSE Num(sum, den)

ExpectedProgress(data) ==
    ClampedRatio(SumOfDrops(data, Len(startAngles)),
                 Len(startAngles) * FirstAngleSpan)

SameOrder == Keys(startAngles) = Keys(finishAngles)

\* C5: for every phase table and every frame whose configured angles are
\* all measured, load_data returns clamp(mean(S[i] - D[i]) / (S[0] - F[0]), 0, 1)
\* where S[0] - F[0] is the span of the first angle of the start table (the
\* quotient is defined when that span is not 0).
C5_ProgressFormula ==
    \A k \in 1..Len(loads) :
        (Measured(loads[k].data) /\ FirstAngleSpan # 0)
            => /\ loads[k].exc = "none"
               /\ loads[k].value = ExpectedProgress(loads[k].data)

\* The same statement for the tables whose two phases list their angles in
\* the same order.
C5_ProgressFormulaSameOrder == SameOrder => C5_ProgressFormula

\* a two-angle frame strictly inside the range, whose progress is neither 0
\* nor 1 and differs from the first angle's own ratio
C5_Witness ==
    /\ SameOrder
    /\ Len(startAngles) = 2
    /\ \E k \in 1..Len(loads) :
          /\ Measured(loads[k].data)
          /\ loads[k].data["knee"] = R(130)
          /\ loads[k].data["hip"] = R(170)
          /\ loads[k].value = Num(1, 4)

Between(lo, hi, d) == (lo <= d /\ d <= hi) \/ (hi <= d /\ d <= lo)

SingleAngle == Len(startAngles) = 1

TheAngle(data) == data[startAngles[1].name].n

\* C7: with a single tracked angle whose start and finish values differ, for
\* two frames whose angles d1, d2 lie between S and F, d2 at least as close to
\* F as d1, progress(d2) >= progress(d1); progress(S) = 0 and progress(F) = 1.
C7_Monotonic ==
    (SingleAngle /\ FirstAngleSpan # 0) =>
        LET S == startAngles[1].value.n
            F == finishAngles[1].value.n
        IN  /\ \A k \in 1..Len(loads) :
                  Measured(loads[k].data) =>
                      /\ TheAngle(loads[k].data) = S => loads[k].value = R(0)
                      /\ TheAngle(loads[k].data) = F => loads[k].value = R(1)
            /\ (/\ Len(loads) = 2
                /\ Measured(loads[1].data)
                /\ Measured(loads[2].data)
                /\ Between(S, F, TheAngle(loads[1].data))
                /\ Between(S, F, TheAngle(loads[2].data))
                /\ Abs(TheAngle(loads[2].data) - F)
                      <= Abs(TheAngle(loads[1].data) - F))
                   => RGeq(loads[2].value, loads[1].value)

\* a frame half way followed by a frame at the finish value
C7_Witness ==
    /\ SingleAngle
    /\ Len(loads) = 2
    /\ Measured(loads[1].data)
    /\ Measured(loads[2].data)
    /\ TheAngle(loads[1].data) = 130
    /\ TheAngle(loads[2].data) = finishAngles[1].value.n
    /\ loads[1].value = Num(1, 2)
    /\ loads[2].value = R(1)

----------------------------------------------------------------------------
(* AnglesProcessor *)

\* P - Q for two points <<x, y, z>>
Minus(P, Q) == <<P[1] - Q[1], P[2] - Q[2], P[3] - Q[3]>>

Dot(u, v) == u[1] * v[1] + u[2] * v[2] + u[3] * v[3]

\* the square of np.linalg.norm(u)
NormSq(u) == Dot(u, u)

\* the divisor np.linalg.norm(ba) * np.linalg.norm(bc) is 0.0: numpy divides
\* all the same, warns "invalid value encountered" and yields NaN
ZeroDivisor(A, B, C) == NormSq(Minus(A, B)) * NormSq(Minus(C, B)) = 0

\* Natural numbers of any size, as the sequence of their digits to the base
\* 2^12, lowest digit first: the significands of float64 values and their
\* exact products

Base == 2^12

RECURSIVE Carry(_, _)
Carry(a, c) ==
    IF a = <<>>
    THEN (IF c = 0 THEN <<>> ELSE <<c % Base>> \o Carry(<<>>, c \div Base))
    ELSE <<(a[1] + c) % Base>> \o Carry(Tail(a), (a[1] + c) \div Base)

RECURSIVE Trim(_)
Trim(a) ==
    IF a # <<>> /\ a[Len(a)] = 0 THEN Trim(SubSeq(a, 1, Len(a) - 1)) ELSE a

Big(i) == Carry(<<>>, i)

BigSucc(a) == Carry(a, 1)

\* the sum of a[i] * b[k + 1 - i] from i on
RECURSIVE ColumnSum(_, _, _, _)
ColumnSum(a, b, k, i) ==
    IF i > Len(a) \/ i > k THEN 0
    ELSE (IF k + 1 - i <= Len(b) THEN a[i] * b[k + 1 - i] ELSE 0)
         + ColumnSum(a, b, k, i + 1)

BigMul(a, b) ==
    IF a = <<>> \/ b = <<>> THEN <<>>
    ELSE Trim(Carry([k \in 1..(Len(a) + Len(b) - 1) |-> ColumnSum(a, b, k, 1)], 0))

\* a < b for numbers without leading zero digits
RECURSIVE BigLess(_, _)
BigLess(a, b) ==
    IF Len(a) # Len(b) THEN Len(a) < Len(b)
    ELSE IF a = <<>> THEN FALSE
    ELSE IF a[Len(a)] # b[Len(b)] THEN a[Len(a)] < b[Len(b)]
    ELSE BigLess(SubSeq(a, 1, Len(a) - 1), SubSeq(b, 1, Len(b) - 1))

BitLen(a) ==
    IF a = <<>> THEN 0
    ELSE 12 * (Len(a) - 1)
         + (CHOOSE b \in 1..12 : 2^(b - 1) <= a[Len(a)] /\ a[Len(a)] < 2^b)

\* a * 2^k
ShiftLeft(a, k) ==
    Trim([i \in 1..(k \div 12) |-> 0]
         \o Carry([i \in 1..Len(a) |-> a[i] * 2^(k % 12)], 0))

\* a divided by 2^k, rounded down
ShiftRight(a, k) ==
    LET d == SubSeq(a, (k \div 12) + 1, Len(a))
        b == k % 12
    IN  Trim([i \in 1..Len(d) |->
                 (d[i] \div 2^b)
                 + (IF i < Len(d) THEN (d[i + 1] % 2^b) * 2^(12 - b) ELSE 0)])

\* 2^k - 1
AllOnes(k) ==
    [i \in 1..(k \div 12) |-> Base - 1]
    \o (IF k % 12 = 0 THEN <<>> ELSE <<2^(k % 12) - 1>>)

\* the float64 nearest to the number M (ties to the even significand), as the
\* significand m of at most 53 bits and the exponent e: m * 2^e
Round53(M) ==
    LET sh == BitLen(M) - 53
    IN  IF sh <= 0 THEN [m |-> M, e |-> 0]
        ELSE LET q == ShiftRight(M, sh)
                 mid == ShiftLeft(BigSucc(ShiftLeft(q, 1)), sh)
                 twice == ShiftLeft(M, 1)
                 up == BigLess(mid, twice) \/ (mid = twice /\ q[1] % 2 = 1)
             IN  [m |-> IF up THEN BigSucc(q) ELSE q, e |-> sh]

\* np.linalg.norm(u) for a vector u of integer coordinates with u.u = n: the
\* float64 nearest to the square root of n, m * 2^e
Norm(n) ==
    CASE n = 1 -> [m |-> <<1>>, e |-> 0]
      [] n = 2 -> [m |-> <<3021, 2035, 3686, 2569, 22>>, e |-> -52]
      [] n = 4 -> [m |-> <<2>>, e |-> 0]
      [] n = 8 -> [m |-> <<3021, 2035, 3686, 2569, 22>>, e |-> -51]
      [] n = 9 -> [m |-> <<3>>, e |-> 0]
      [] n = 16 -> [m |-> <<4>>, e |-> 0]
      [] n = 18 -> [m |-> <<3289, 3574, 1740, 3975, 16>>, e |-> -50]
      [] n = 32 -> [m |-> <<3021, 2035, 3686, 2569, 22>>, e |-> -50]

\* np.linalg.norm(ba) * np.linalg.norm(bc): the float64 product of the norms
NormProduct(n1, n2) ==
    LET r == Round53(BigMul(Norm(n1).m, Norm(n2).m))
    IN  [m |-> r.m, e |-> r.e + Norm(n1).e + Norm(n2).e]

\* the float64 quotient d / (norm product) is below 1.0 for an integer d > 0:
\* the exact quotient is below 1 - 2^-54, the middle between 1.0 and the
\* float64 before it
CosineBelowOne(n1, n2, d) ==
    LET p == NormProduct(n1, n2)
        left == ShiftLeft(Big(d), 54 + (IF p.e < 0 THEN -p.e ELSE 0))
        right == ShiftLeft(BigMul(p.m, AllOnes(54)), IF p.e > 0 THEN p.e ELSE 0)
    IN  BigLess(left, right)

\* np.degrees(np.arccos(c)) for a cosine c one or two float64 steps inside
\* -1.0 or 1.0, to six decimals: 0.000001 and 179.999999
NearlyCollinear(s) ==
    IF s > 0 THEN Num(1, 1000000) ELSE Num(179999999, 1000000)

\* an angle the table below does not hold
Unmodelled == [k |-> "unmodelled", n |-> 0, d |-> 1]

\* np.degrees(np.arccos(c)) for the cosine c of sign s and square q, in whole
\* degrees for the cosines whose angle is a whole number of degrees
ArccosDegrees(s, q) ==
    IF q = R(0) THEN R(90)
    ELSE IF q = R(1) THEN (IF s > 0 THEN R(0) ELSE R(180))
    ELSE IF q = Num(1, 2) THEN (IF s > 0 THEN R(45) ELSE R(135))
    ELSE IF q = Num(1, 4) THEN (IF s > 0 THEN R(60) ELSE R(120))
    ELSE IF q = Num(3, 4) THEN (IF s > 0 THEN R(30) ELSE R(150))
    ELSE Unmodelled

\* AnglesProcessor.__calculate_3D_angle(A, B, C); the three arrays have shape
\* (3,), so the ValueError of the shape test is never raised.  The cosine is
\* kept as its sign and its square.  For collinear ba and bc the float64
\* quotient is followed: it is 1.0, or above and cut to 1.0 by
\* np.clip(cosine, -1, 1), or a step or two below 1.0.
Calculate3DAngle(A, B, C) ==
    LET ba == Minus(A, B)
        bc == Minus(C, B)
        dot == Dot(ba, bc)
        nn == NormSq(ba) * NormSq(bc)
    IN  IF nn = 0
        THEN (IF dot = 0 THEN NaN
              ELSE IF dot > 0 THEN R(0) ELSE R(180))
        ELSE IF dot * dot >= nn
        THEN (IF CosineBelowOne(NormSq(ba), NormSq(bc), Abs(dot))
              THEN NearlyCollinear(Sign(dot))
              ELSE ArccosDegrees(Sign(dot), R(1)))
        ELSE ArccosDegrees(Sign(dot), Num(dot * dot, nn))

Joint(frame, id, P) == [frame |-> frame, id |-> id, x |-> P[1], y |-> P[2], z |-> P[3]]

Angle(frame, name, value) == [frame |-> frame, name |-> name, value |-> value]

\* joint_dict = {joint.id: [joint.x, joint.y, joint.z] for joint in data}: the
\* last joint of an id wins
JointDict(data) ==
    [id \in {data[i].id : i \in 1..Len(data)} |->
        LET i == CHOOSE j \in 1..Len(data) :
                    /\ data[j].id = id
                    /\ \A m \in (j + 1)..Len(data) : data[m].id # id
        IN  <<data[i].x, data[i].y, data[i].z>>]

\* the angles of the configuration whose three joints are all in joint_dict,
\* up to the first one that lacks a joint
ComputableUpTo(angle_names, joint_dict) ==
    LET lacking == {i \in 1..Len(angle_names) :
                       \E j \in 1..3 : angle_names[i].ids[j] \notin DOMAIN joint_dict}
    IN  IF lacking = {} THEN Len(angle_names)
        ELSE (CHOOSE i \in lacking : \A m \in lacking : i <= m) - 1

\* coordinates taken with the vertex first
Coords_VertexFirst(joint_dict, joint_ids) ==
    <<joint_dict[joint_ids[2]], joint_dict[joint_ids[1]], joint_dict[joint_ids[3]]>>

\* coords = np.array([joint_dict[joint_id] for joint_id in joint_ids])
Coords(joint_dict, joint_ids) == [j \in 1..3 |-> joint_dict[joint_ids[j]]]

\* AnglesProcessor.process(data): [exc, angles, warned].  exc is "IndexError"
\* for an empty joint list (data[0]), "KeyError" when a joint id of an angle is
\* not among the frame's joints, else "none"; warned when a division by a zero
\* divisor was made before the method returned or raised.
AnglesProcess(angle_names, data) ==
    IF data = <<>> THEN [exc |-> "IndexError", angles |-> <<>>, warned |-> FALSE]
    ELSE LET frame_number == data[1].frame
             joint_dict == JointDict(data)
             n == ComputableUpTo(angle_names, joint_dict)
             coords(i) == Coords(joint_dict, angle_names[i].ids)
             angles == [i \in 1..n |->
                          Angle(frame_number, angle_names[i].name,
                                Calculate3DAngle(coords(i)[1], coords(i)[2],
                                                 coords(i)[3]))]
             warned == \E i \in 1..n :
                           ZeroDivisor(coords(i)[1], coords(i)[2], coords(i)[3])
         IN  IF n < Len(angle_names)
             THEN [exc |-> "KeyError", angles |-> <<>>, warned |-> warned]
             ELSE [exc |-> "none", angles |-> angles, warned |-> warned]

\* the angles of one frame as the dict angle name -> value that
\* RepetitionsHandler.load_data reads
AnglesDict(angles) ==
    [name \in {angles[i].name : i \in 1..Len(angles)} |->
        LET i == CHOOSE j \in 1..Len(angles) :
                    /\ angles[j].name = name
                    /\ \A m \in (j + 1)..Len(angles) : angles[m].name # name
        IN  angles[i].value]

----------------------------------------------------------------------------
(* SegmentsProcessor.process: the offline segmentation.  The same progress  *)
(* and the same transitions as the handler, scanned over the whole angle    *)
(* series; the frame of an UP to DOWN transition starts a candidate         *)
(* segment, the frame of the next DOWN to UP transition finishes it.        *)

\* the frame numbers of an angle series, in order of first appearance
RECURSIVE FramesOf(_)
FramesOf(angles) ==
    IF angles = <<>> THEN <<>>
    ELSE <<Head(angles).frame>>
         \o FramesOf(SelectSeq(Tail(angles),
                               LAMBDA a : a.frame # Head(angles).frame))

AnglesOfFrame(angles, f) == SelectSeq(angles, LAMBDA a : a.frame = f)

Segment(rep, start_frame, finish_frame) ==
    [rep |-> rep, start_frame |-> start_frame, finish_frame |-> finish_frame]

\* One frame of the scan.  c = [h, start_frame, complete, segs]: the handler,
\* the frame at which the candidate began, whether every frame of the
\* candidate had all configured angles, and the segments emitted so far.
ScanFrame(c, start, finish, angles, f) ==
    LET r == LoadData(start, finish, AnglesDict(AnglesOfFrame(angles, f)))
        h == UpdateState(c.h, r.value)
    IN  IF r.exc # "none"
        THEN [c EXCEPT !.complete = FALSE]
        ELSE IF c.h.state = "up" /\ h.state = "down"
        THEN [c EXCEPT !.h = h, !.start_frame = f, !.complete = TRUE]
        ELSE IF c.h.state = "down" /\ h.state = "up"
        THEN [c EXCEPT !.h = h,
                       !.segs = IF c.complete
                                THEN Append(c.segs,
                                            Segment(Len(c.segs) + 1,
                                                    c.start_frame, f))
                                ELSE c.segs]
        ELSE [c EXCEPT !.h = h]

RECURSIVE Scan(_, _, _, _, _)
Scan(c, start, finish, angles, frames) ==
    IF frames = <<>> THEN c
    ELSE Scan(ScanFrame(c, start, finish, angles, Head(frames)),
              start, finish, angles, Tail(frames))

\* the segments of an angle series; a candidate still open at the end of the
\* series is not emitted
SegmentsProcess(start, finish, angles) ==
    Scan([h |-> NewHandler, start_frame |-> 0, complete |-> TRUE, segs |-> <<>>],
         start, finish, angles, FramesOf(angles)).segs

----------------------------------------------------------------------------
(* The ramp scenario: one tracked angle held at the start value, lowered    *)
(* linearly to the finish value and raised linearly back, fed frame by      *)
(* frame to the handler and, as a whole series, to the segmentation.        *)

\* the numbers of frames a ramp may take
RampLengths == {5, 10}

Scenarios == [hold : 1..MaxHold, down : RampLengths, up : RampLengths]

\* the angle of frame i (from 1) of scenario sc, between the start value S
\* and the finish value F of KneeTable
RampAngle(sc, i) ==
    LET S == KneeTable.start[1].value.n
        F == KneeTable.finish[1].value.n
    IN  IF i <= sc.hold THEN R(S)
        ELSE IF i <= sc.hold + sc.down
        THEN Num(S * sc.down - (S - F) * (i - sc.hold), sc.down)
        ELSE Num(F * sc.up + (S - F) * (i - sc.hold - sc.down), sc.up)

RampSeries(sc) == [i \in 1..(sc.hold + sc.down + sc.up) |-> RampAngle(sc, i)]

RampInit ==
    /\ IsHandler(NewHandler)
    /\ startAngles = KneeTable.start
    /\ finishAngles = KneeTable.finish
    /\ hist = <<>>
    /\ loads = <<>>
    /\ raised = FALSE
    /\ pc = "frames"
    /\ opts \in Scenarios
    /\ input = RampSeries(opts)
    /\ FreshRun

\* the next frame of the series: its angle is recorded, and the handler takes
\* update(load_data(angles))
RampFrame ==
    /\ pc = "frames"
    /\ pos < Len(input)
    /\ \E a \in {Angle(pos + 1, "knee", input[pos + 1])} :
          /\ anglesData' = Append(anglesData, a)
          /\ SetHandler(UpdateState(Handler,
                 LoadData(startAngles, finishAngles, AnglesDict(<<a>>)).value))
    /\ pos' = pos + 1
    /\ UNCHANGED <<tableVars, harnessVars, pc, opts, input, passes, jointsData,
                   cur, shown, videoVars, reportVars>>

\* the whole series is segmented
RampSegment ==
    /\ pc = "frames"
    /\ pos = Len(input)
    /\ segments' = SegmentsProcess(startAngles, finishAngles, anglesData)
    /\ pc' = "done"
    /\ UNCHANGED <<handlerVars, tableVars, harnessVars, opts, input, pos, passes,
                   dataVars, compared, results, reference, reportVars>>

RampNext == RampFrame \/ RampSegment

SpecRamp == RampInit /\ [][RampNext]_vars

\* C4: a series that holds 170 (5 frames), falls linearly to 90 (10 frames)
\* and returns to 170 (5 frames) yields exactly one repetition: the hold
\* frames count nothing, the count is 0 until the last frame and 1 after it,
\* and the one Segment has start_frame < finish_frame.  Checked for every
\* hold of 1..MaxHold frames and ramps of 5 or 10 frames.
C4_RampIsOneRepetition ==
    /\ pos <= opts.hold => (repetitions = 0 /\ state = "up")
    /\ pos < Len(input) => repetitions = 0
    /\ pos = Len(input) => (repetitions = 1 /\ state = "up")
    /\ pc = "done" =>
          /\ Len(segments) = 1
          /\ segments[1].rep = 1
          /\ segments[1].start_frame < segments[1].finish_frame

\* the scenario of the claim, run to its end
C4_Witness ==
    /\ pc = "done"
    /\ opts = [hold |-> 5, down |-> 10, up |-> 5]
    /\ pos = 20
    /\ input[5] = R(170) /\ input[6] = R(162) /\ input[15] = R(90)
    /\ input[16] = R(106) /\ input[20] = R(170)
    /\ repetitions = 1
    /\ segments = <<Segment(1, 15, 20)>>

----------------------------------------------------------------------------
(* The inputs of the applications *)

\* joint ids: 1 hip, 2 knee, 3 ankle, 4 shoulder
KneeConfig == <<[name |-> "knee", ids |-> <<1, 2, 3>>]>>

KneeHipConfig ==
    <<[name |-> "knee", ids |-> <<1, 2, 3>>], [name |-> "hip", ids |-> <<4, 1, 2>>]>>

\* the angle configuration and the phase table a run is started with; the
\* last one tracks an angle the configuration does not compute
Setups ==
    {[angle_names |-> KneeConfig, phases |-> KneeTable],
     [angle_names |-> KneeHipConfig, phases |-> KneeTable],
     [angle_names |-> KneeConfig, phases |-> KneeHipTable]}

\* a standing body with the ankle at point P
Body(P) ==
    <<[id |-> 1, p |-> <<0, 1, 0>>], [id |-> 2, p |-> <<0, 0, 0>>],
      [id |-> 3, p |-> P], [id |-> 4, p |-> <<0, 2, 0>>]>>

\* knee angle 180, 135, 90 degrees
Straight == Body(<<0, -1, 0>>)

Half == Body(<<1, -1, 0>>)

Bent == Body(<<1, 0, 0>>)

\* the ankle landmark coincides with the knee landmark
Degenerate == Body(<<0, 0, 0>>)

\* the frame's joints lack the ankle
Partial == SelectSeq(Straight, LAMBDA j : j.id # 3)

NoPose == [detected |-> FALSE, pose |-> <<>>]

Detected(pose) == [detected |-> TRUE, pose |-> pose]

\* what the pose estimation yields for a frame
FrameKinds ==
    {NoPose, Detected(Straight), Detected(Half), Detected(Bent),
     Detected(Degenerate), Detected(Partial)}

Inputs == UNION {[1..n -> FrameKinds] : n \in 0..MaxInput}

\* JointsProcessor: the joints of frame number no
JointsOf(frame, no) ==
    [i \in 1..Len(frame.pose) |-> Joint(no, frame.pose[i].id, frame.pose[i].p)]

\* the number of the frame read last
FrameNo == (IF passes = 0 THEN 0 ELSE (passes - 1) * Len(input)) + pos

\* the outcome of writing the output files: written, the output directory
\* rejected (ValueError), or a write that fails (OSError)
SaveOutcomes == {"ok", "ValueError", "OSError"}

\* a handler that swallows every failure of the save
SaveReport_Swallowed(o) == [logged |-> FALSE, exc |-> "none"]

\* try: ...save(output) except ValueError: logger.critical(...) -- what run()
\* reports for a save that ended with outcome o
SaveReport(o) ==
    [logged |-> o = "ValueError",
     exc |-> IF o = "OSError" THEN "OSError" ELSE "none"]

\* the files written when the k-th of files is the one whose save fails
Written(files, o, k) ==
    IF o = "ok" THEN {files[i] : i \in 1..Len(files)}
    ELSE {files[i] : i \in 1..(k - 1)}

\* a loop that takes every frame as one with landmarks
WorldLandmarks_Always(frame) == TRUE

\* world_landmards = results.pose_world_landmarks; if world_landmards:
WorldLandmarks(frame) == frame.detected

----------------------------------------------------------------------------
(* LiveAnalysisApp.run *)

LiveInit ==
    /\ IsHandler(NewHandler)
    /\ \E su \in Setups, sv \in BOOLEAN, lp \in BOOLEAN :
          /\ opts = [app |-> "live", save_results |-> sv, loop |-> lp,
                     angle_names |-> su.angle_names]
          /\ startAngles = su.phases.start
          /\ finishAngles = su.phases.finish
    /\ input \in Inputs
    /\ pc = "open"
    /\ hist = <<>>
    /\ loads = <<>>
    /\ raised = FALSE
    /\ FreshRun

Live(at) == opts.app = "live" /\ pc = at

\* cap = cv2.VideoCapture(input); if not cap.isOpened(): critical, return
LiveOpen ==
    /\ Live("open")
    /\ \E opened \in BOOLEAN :
          /\ passes' = IF opened THEN 1 ELSE 0
          /\ logged' = ~opened
          /\ pc' = IF opened THEN "read" ELSE "done"
    /\ UNCHANGED <<handlerVars, tableVars, harnessVars, opts, input, pos,
                   dataVars, videoVars, exc, fpWarned, saved>>

\* ret, frame = cap.read() with a frame left
LiveRead ==
    /\ Live("read")
    /\ pos < Len(input)
    /\ pos' = pos + 1
    /\ pc' = "pose"
    /\ UNCHANGED <<handlerVars, tableVars, harnessVars, opts, input, passes,
                   dataVars, videoVars, reportVars>>

\* a restart that starts with a new repetitions processor
ProcessorOnReopen_Reset(h) == NewHandler

\* repetitions_processor is constructed once, before the loop; the restart
\* assigns only cap
ProcessorOnReopen(h) == h

\* not ret, loop: cap = cv2.VideoCapture(input); continue -- back to the test
\* of while cap.isOpened(), without reaching cv2.waitKey.  The model follows a
\* looping run for MaxPasses captures.
LiveReopen ==
    /\ Live("read")
    /\ pos = Len(input)
    /\ opts.loop
    /\ passes < MaxPasses
    /\ \E opened \in BOOLEAN :
          pc' = IF opened THEN "read" ELSE "release"
    /\ passes' = passes + 1
    /\ pos' = 0
    /\ SetHandler(ProcessorOnReopen(Handler))
    /\ UNCHANGED <<tableVars, harnessVars, opts, input,
                   dataVars, videoVars, reportVars>>

\* not ret, no loop: break
LiveEnd ==
    /\ Live("read")
    /\ pos = Len(input)
    /\ ~opts.loop
    /\ pc' = "release"
    /\ UNCHANGED <<handlerVars, tableVars, harnessVars, opts, input, pos, passes,
                   dataVars, videoVars, reportVars>>

\* results = self._pose_estimation_model.process(frame); if world_landmards:
LivePose ==
    /\ Live("pose")
    /\ cur' = [NoFrame EXCEPT !.detected = WorldLandmarks(input[pos])]
    /\ pc' = IF WorldLandmarks(input[pos]) THEN "joints" ELSE "show"
    /\ UNCHANGED <<handlerVars, tableVars, harnessVars, opts, input, pos, passes,
                   jointsData, anglesData, shown, videoVars, reportVars>>

\* joints = load_data(...); filtered_joints = filter(joints); update(...)
LiveJoints ==
    /\ Live("joints")
    /\ \E joints \in {JointsOf(input[pos], FrameNo)} :
          /\ cur' = [cur EXCEPT !.joints = joints]
          /\ jointsData' = jointsData \o joints
    /\ pc' = "angles"
    /\ UNCHANGED <<handlerVars, tableVars, harnessVars, opts, input, pos, passes,
                   anglesData, shown, videoVars, reportVars>>

\* angles = self._angles_processor.load_data(filtered_joints); update(angles)
LiveAngles ==
    /\ Live("angles")
    /\ \E r \in {AnglesProcess(opts.angle_names, cur.joints)} :
          /\ fpWarned' = (fpWarned \/ r.warned)
          /\ exc' = r.exc
          /\ IF r.exc = "none"
             THEN /\ cur' = [cur EXCEPT !.angles = r.angles]
                  /\ anglesData' = anglesData \o r.angles
                  /\ pc' = "progress"
             ELSE /\ UNCHANGED <<cur, anglesData>>
                  /\ pc' = "raised"
    /\ UNCHANGED <<handlerVars, tableVars, harnessVars, opts, input, pos, passes,
                   jointsData, shown, videoVars, logged, saved>>

\* progress = repetitions_processor.load_data(angles)
LiveProgress ==
    /\ Live("progress")
    /\ \E r \in {LoadData(startAngles, finishAngles, AnglesDict(cur.angles))} :
          /\ exc' = r.exc
          /\ IF r.exc = "none"
             THEN cur' = [cur EXCEPT !.progress = r.value] /\ pc' = "update"
             ELSE UNCHANGED cur /\ pc' = "raised"
    /\ UNCHANGED <<handlerVars, tableVars, harnessVars, opts, input, pos, passes,
                   jointsData, anglesData, shown, videoVars, fpWarned, logged,
                   saved>>

\* repetitions_processor.update(progress)
LiveUpdate ==
    /\ Live("update")
    /\ SetHandler(UpdateState(Handler, cur.progress))
    /\ hist' = Append(hist, cur.progress)
    /\ pc' = "display"
    /\ UNCHANGED <<tableVars, loads, raised, opts, input, pos, passes,
                   dataVars, videoVars, reportVars>>

\* a display that keeps the count and the state it showed before
UpdateFigure_Stale(frame, p, h) ==
    [frame |-> frame, progress |-> p, repetitions |-> shown.repetitions,
     state |-> shown.state]

\* update_figure(filtered_joints, angles, progress,
\* repetitions_processor.repetitions_count, repetitions_processor.state):
\* what the visualizer is given for a frame
UpdateFigure(frame, p, h) ==
    [frame |-> frame, progress |-> p, repetitions |-> h.repetitions,
     state |-> h.state]

\* self._visualizer.update_figure(filtered_joints, angles, progress,
\* repetitions_count, state); draw_landmarks(...)
LiveDisplay ==
    /\ Live("display")
    /\ shown' = UpdateFigure(FrameNo, cur.progress, Handler)
    /\ pc' = "show"
    /\ UNCHANGED <<handlerVars, tableVars, harnessVars, opts, input, pos, passes,
                   jointsData, anglesData, cur, videoVars, reportVars>>

\* cv2.imshow(...); if cv2.waitKey(1) & 0xFF == ord("q"): break
LiveShow ==
    /\ Live("show")
    /\ \E key \in {"q", "other"} :
          pc' = IF key = "q" THEN "release" ELSE "read"
    /\ UNCHANGED <<handlerVars, tableVars, harnessVars, opts, input, pos, passes,
                   dataVars, videoVars, reportVars>>

\* cap.release(); cv2.destroyAllWindows(); if save_results:
LiveRelease ==
    /\ Live("release")
    /\ pc' = IF opts.save_results THEN "save" ELSE "done"
    /\ UNCHANGED <<handlerVars, tableVars, harnessVars, opts, input, pos, passes,
                   dataVars, videoVars, reportVars>>

LiveFiles == <<"joints", "angles", "repetitions">>

\* try: joints.save(output); angles.save(output); repetitions.save(output)
\* except ValueError: critical.  The output directory is rejected by the
\* first save; a write may fail at any of the three.
LiveSave ==
    /\ Live("save")
    /\ \E o \in SaveOutcomes, k \in 1..Len(LiveFiles) :
          /\ o # "OSError" => k = 1
          /\ saved' = Written(LiveFiles, o, k)
          /\ logged' = SaveReport(o).logged
          /\ exc' = SaveReport(o).exc
          /\ pc' = IF SaveReport(o).exc = "none" THEN "done" ELSE "raised"
    /\ UNCHANGED <<handlerVars, tableVars, harnessVars, opts, input, pos, passes,
                   dataVars, videoVars, fpWarned>>

LiveNext ==
    \/ LiveOpen
    \/ LiveRead
    \/ LiveReopen
    \/ LiveEnd
    \/ LivePose
    \/ LiveJoints
    \/ LiveAngles
    \/ LiveProgress
    \/ LiveUpdate
    \/ LiveDisplay
    \/ LiveShow
    \/ LiveRelease
    \/ LiveSave

SpecLive == LiveInit /\ [][LiveNext]_vars

----------------------------------------------------------------------------
(* VideoAnalysisApp.run *)

VideoInit ==
    /\ IsHandler(NewHandler)
    /\ \E su \in Setups, sv \in BOOLEAN :
          /\ opts = [app |-> "video", save_results |-> sv, loop |-> FALSE,
                     angle_names |-> su.angle_names]
          /\ startAngles = su.phases.start
          /\ finishAngles = su.phases.finish
    /\ input \in Inputs
    /\ pc = "construct"
    /\ hist = <<>>
    /\ loads = <<>>
    /\ raised = FALSE
    /\ FreshRun

Video(at) == opts.app = "video" /\ pc = at

\* the frames of the reference tables joints.csv and angles.csv of an
\* exercise: the same frames, an angle frame missing, a joint frame missing
ReferenceTables ==
    {[joints |-> {1, 2, 3}, angles |-> {1, 2, 3}],
     [joints |-> {1, 2, 3}, angles |-> {1, 2}],
     [joints |-> {2, 3}, angles |-> {1, 2, 3}]}

\* SegmentsProcessor.from_df((reference_joints, reference_angles)): the
\* reference segment over the tables' frames, or ReferenceIntegrityError when
\* the two tables do not hold the same frames
FromDf(tables) ==
    IF tables.joints = tables.angles
    THEN [exc |-> "none", frames |-> tables.joints]
    ELSE [exc |-> "ReferenceIntegrityError", frames |-> {}]

\* a run that loads the reference segment again for every comparison
ReferenceUsed_Reloaded(ref) == [ref EXCEPT !.loads = @ + 1]

\* run only reads self.reference_segment (the argument of compare_segments):
\* the attribute after a comparison
ReferenceUsed(ref) == ref

\* __init__: the reference tables are read and
\* self.reference_segment = SegmentsProcessor.from_df(...); an exception
\* leaves the constructor and no run is made
VideoConstruct ==
    /\ Video("construct")
    /\ \E tables \in ReferenceTables :
          \E r \in {FromDf(tables)} :
             /\ exc' = r.exc
             /\ IF r.exc = "none"
                THEN /\ reference' = [loads |-> reference.loads + 1,
                                      loaded |-> TRUE, frames |-> r.frames]
                     /\ pc' = "open"
                ELSE /\ UNCHANGED reference
                     /\ pc' = "raised"
    /\ UNCHANGED <<handlerVars, tableVars, harnessVars, opts, input, pos, passes,
                   dataVars, segments, compared, results, fpWarned, logged,
                   saved>>

\* cap = cv2.VideoCapture(input); ...; if not cap.isOpened(): critical, return
VideoOpen ==
    /\ Video("open")
    /\ \E opened \in BOOLEAN :
          /\ passes' = IF opened THEN 1 ELSE 0
          /\ logged' = ~opened
          /\ pc' = IF opened THEN "read" ELSE "done"
    /\ UNCHANGED <<handlerVars, tableVars, harnessVars, opts, input, pos,
                   dataVars, videoVars, exc, fpWarned, saved>>

\* ret, frame = cap.read() with a frame left
VideoRead ==
    /\ Video("read")
    /\ pos < Len(input)
    /\ pos' = pos + 1
    /\ pc' = "pose"
    /\ UNCHANGED <<handlerVars, tableVars, harnessVars, opts, input, passes,
                   dataVars, videoVars, reportVars>>

\* if not ret: break; cap.release()
VideoEnd ==
    /\ Video("read")
    /\ pos = Len(input)
    /\ pc' = "segment"
    /\ UNCHANGED <<handlerVars, tableVars, harnessVars, opts, input, pos, passes,
                   dataVars, videoVars, reportVars>>

\* results = self._pose_estimation_model.process(frame); if world_landmards:
VideoPose ==
    /\ Video("pose")
    /\ cur' = [NoFrame EXCEPT !.detected = WorldLandmarks(input[pos])]
    /\ pc' = IF WorldLandmarks(input[pos]) THEN "joints" ELSE "read"
    /\ UNCHANGED <<handlerVars, tableVars, harnessVars, opts, input, pos, passes,
                   jointsData, anglesData, shown, videoVars, reportVars>>

\* joints = joints_processor.process(world_landmards); update(joints)
VideoJoints ==
    /\ Video("joints")
    /\ \E joints \in {JointsOf(input[pos], FrameNo)} :
          /\ cur' = [cur EXCEPT !.joints = joints]
          /\ jointsData' = jointsData \o joints
    /\ pc' = "angles"
    /\ UNCHANGED <<handlerVars, tableVars, harnessVars, opts, input, pos, passes,
                   anglesData, shown, videoVars, reportVars>>

\* angles = angles_processor.process(joints); angles_processor.update(angles)
VideoAngles ==
    /\ Video("angles")
    /\ \E r \in {AnglesProcess(opts.angle_names, cur.joints)} :
          /\ fpWarned' = (fpWarned \/ r.warned)
          /\ exc' = r.exc
          /\ IF r.exc = "none"
             THEN /\ cur' = [cur EXCEPT !.angles = r.angles]
                  /\ anglesData' = anglesData \o r.angles
                  /\ pc' = "read"
             ELSE /\ UNCHANGED <<cur, anglesData>>
                  /\ pc' = "raised"
    /\ UNCHANGED <<handlerVars, tableVars, harnessVars, opts, input, pos, passes,
                   jointsData, shown, videoVars, logged, saved>>

\* segments = segments_processor.process(data=(joints, angles)); update(...)
VideoSegment ==
    /\ Video("segment")
    /\ segments' = SegmentsProcess(startAngles, finishAngles, anglesData)
    /\ pc' = "compare"
    /\ UNCHANGED <<handlerVars, tableVars, harnessVars, opts, input, pos, passes,
                   dataVars, compared, results, reference, reportVars>>

\* the mistake rules configured for the exercise
Rules == {"depth", "lean"}

\* the results of one comparison, one per rule the segment triggers, in the
\* order of the rules
RECURSIVE FineResults(_, _)
FineResults(rep, triggered) ==
    IF triggered = {} THEN <<>>
    ELSE LET r == CHOOSE x \in triggered : \A y \in triggered : x = "depth" \/ y # "depth"
         IN  <<[rep |-> rep, mistake_name |-> r]>> \o FineResults(rep, triggered \ {r})

\* a loop that takes the segments from the last one to the first
NextSegment_Reversed(segs, n) == segs[Len(segs) - n]

\* for segment in segments: the segment taken after n of them
NextSegment(segs, n) == segs[n + 1]

\* for segment in segments: results = compare_segments(segment, reference);
\* fine_results = results_processor.process(results); update(fine_results)
VideoCompare ==
    /\ Video("compare")
    /\ compared < Len(segments)
    /\ \E triggered \in SUBSET Rules :
          results' = results \o FineResults(NextSegment(segments, compared).rep,
                                            triggered)
    /\ compared' = compared + 1
    /\ reference' = ReferenceUsed(reference)
    /\ UNCHANGED <<handlerVars, tableVars, harnessVars, runVars, dataVars,
                   segments, reportVars>>

\* the loop over the segments is over; if save_results:
VideoCompared ==
    /\ Video("compare")
    /\ compared = Len(segments)
    /\ pc' = IF opts.save_results THEN "save" ELSE "done"
    /\ UNCHANGED <<handlerVars, tableVars, harnessVars, opts, input, pos, passes,
                   dataVars, videoVars, reportVars>>

VideoFiles == <<"results">>

\* try: results_processor.save(output) except ValueError: critical
VideoSave ==
    /\ Video("save")
    /\ \E o \in SaveOutcomes :
          /\ saved' = Written(VideoFiles, o, 1)
          /\ logged' = SaveReport(o).logged
          /\ exc' = SaveReport(o).exc
          /\ pc' = IF SaveReport(o).exc = "none" THEN "done" ELSE "raised"
    /\ UNCHANGED <<handlerVars, tableVars, harnessVars, opts, input, pos, passes,
                   dataVars, videoVars, fpWarned>>

VideoNext ==
    \/ VideoConstruct
    \/ VideoOpen
    \/ VideoRead
    \/ VideoEnd
    \/ VideoPose
    \/ VideoJoints
    \/ VideoAngles
    \/ VideoSegment
    \/ VideoCompare
    \/ VideoCompared
    \/ VideoSave

SpecVideo == VideoInit /\ [][VideoNext]_vars

----------------------------------------------------------------------------
(* The video application after the frame loop of a video of n repetitions:  *)
(* the frames alternate between the bent and the straight knee.             *)

RepFrames(n) ==
    [i \in 1..(2 * n) |-> IF i % 2 = 1 THEN Detected(Bent) ELSE Detected(Straight)]

\* what joints_processor.update has collected after k frames
RECURSIVE JointsUpTo(_, _)
JointsUpTo(frames, k) ==
    IF k = 0 THEN <<>>
    ELSE JointsUpTo(frames, k - 1) \o JointsOf(frames[k], k)

\* what angles_processor.update has collected after k frames
RECURSIVE AnglesUpTo(_, _, _)
AnglesUpTo(angle_names, frames, k) ==
    IF k = 0 THEN <<>>
    ELSE AnglesUpTo(angle_names, frames, k - 1)
         \o AnglesProcess(angle_names, JointsOf(frames[k], k)).angles

ComparisonInit ==
    /\ IsHandler(NewHandler)
    /\ \E su \in Setups, sv \in BOOLEAN, n \in 0..MaxSegments :
          /\ opts = [app |-> "video", save_results |-> sv, loop |-> FALSE,
                     angle_names |-> su.angle_names]
          /\ startAngles = su.phases.start
          /\ finishAngles = su.phases.finish
          /\ input = RepFrames(n)
          /\ jointsData = JointsUpTo(input, Len(input))
          /\ anglesData = AnglesUpTo(su.angle_names, input, Len(input))
          /\ cur = IF n = 0 THEN NoFrame
                   ELSE [NoFrame EXCEPT
                            !.detected = TRUE,
                            !.joints = JointsOf(input[Len(input)], Len(input)),
                            !.angles = AnglesProcess(su.angle_names,
                                          JointsOf(input[Len(input)],
                                                   Len(input))).angles]
    /\ pc = "segment"
    /\ pos = Len(input)
    /\ passes = 1
    /\ hist = <<>>
    /\ loads = <<>>
    /\ raised = FALSE
    /\ shown = NothingShown
    /\ segments = <<>>
    /\ compared = 0
    /\ results = <<>>
    /\ reference = [loads |-> 1, loaded |-> TRUE, frames |-> {1, 2, 3}]
    /\ exc = "none"
    /\ fpWarned = FALSE
    /\ logged = FALSE
    /\ saved = {}

ComparisonNext ==
    \/ VideoSegment
    \/ VideoCompare
    \/ VideoCompared
    \/ VideoSave

SpecComparison == ComparisonInit /\ [][ComparisonNext]_vars

----------------------------------------------------------------------------
(* The angles processor called directly: process(joints) and update(angles) *)
(* for the joints of a frame whose bones lie along the axes and diagonals   *)
(* of a grid.                                                                *)

Plus(P, Q) == <<P[1] + Q[1], P[2] + Q[2], P[3] + Q[3]>>

Times(k, P) == <<k * P[1], k * P[2], k * P[3]>>

\* the directions of the axes and of the diagonals of the coordinate planes
Directions ==
    {v \in {-1, 0, 1} \X {-1, 0, 1} \X {-1, 0, 1} :
        Cardinality({i \in 1..3 : v[i] # 0}) \in {1, 2}}

Bones == {Times(k, v) : k \in 1..MaxScale, v \in Directions}

\* the knee of the frame
Knees == {<<0, 0, 0>>, <<1, 0, -1>>}

\* the joints of frame no: the knee at B, the hip at B + u, the ankle at
\* B + v, the shoulder at hip + w; some frames come without the shoulder
Pose(no, B, u, v, w) ==
    <<Joint(no, 1, Plus(B, u)), Joint(no, 2, B), Joint(no, 3, Plus(B, v)),
      Joint(no, 4, Plus(Plus(B, u), w))>>

HipKneeConfig ==
    <<[name |-> "hip", ids |-> <<4, 1, 2>>], [name |-> "knee", ids |-> <<1, 2, 3>>]>>

AngleConfigs == {KneeConfig, KneeHipConfig, HipKneeConfig}

AnglesInit ==
    /\ IsHandler(NewHandler)
    /\ startAngles = KneeTable.start
    /\ finishAngles = KneeTable.finish
    /\ hist = <<>>
    /\ loads = <<>>
    /\ raised = FALSE
    /\ \E config \in AngleConfigs :
          opts = [app |-> "angles", save_results |-> FALSE, loop |-> FALSE,
                  angle_names |-> config]
    /\ \E B \in Knees, u \in Bones, v \in Bones, s \in {-1, 1} :
          cur = [NoFrame EXCEPT
                    !.detected = TRUE,
                    !.joints = IF B = <<0, 0, 0>> /\ s = 1
                               THEN SubSeq(Pose(1, B, u, v, u), 1, 3)
                               ELSE Pose(1, B, u, v, Times(s, u))]
    /\ pc = "process"
    /\ input = <<>>
    /\ pos = 1
    /\ passes = 0
    /\ jointsData = <<>>
    /\ anglesData = <<>>
    /\ shown = NothingShown
    /\ segments = <<>>
    /\ compared = 0
    /\ results = <<>>
    /\ reference = NoReference
    /\ exc = "none"
    /\ fpWarned = FALSE
    /\ logged = FALSE
    /\ saved = {}

\* angles = angles_processor.process(joints)
AnglesCall ==
    /\ opts.app = "angles"
    /\ pc = "process"
    /\ \E r \in {AnglesProcess(opts.angle_names, cur.joints)} :
          /\ exc' = r.exc
          /\ fpWarned' = (fpWarned \/ r.warned)
          /\ cur' = [cur EXCEPT !.angles = r.angles]
          /\ pc' = IF r.exc = "none" THEN "update" ELSE "raised"
    /\ UNCHANGED <<handlerVars, tableVars, harnessVars, opts, input, pos, passes,
                   jointsData, anglesData, shown, videoVars, logged, saved>>

\* angles_processor.update(angles): self.data.extend(data); the next frame
\* has the same pose
AnglesStore ==
    /\ opts.app = "angles"
    /\ pc = "update"
    /\ anglesData' = anglesData \o cur.angles
    /\ IF pos < MaxCalls
       THEN /\ pos' = pos + 1
            /\ cur' = [cur EXCEPT
                          !.joints = [i \in 1..Len(@) |->
                                         [@[i] EXCEPT !.frame = pos + 1]],
                          !.angles = <<>>]
            /\ pc' = "process"
       ELSE /\ UNCHANGED <<pos, cur>>
            /\ pc' = "done"
    /\ UNCHANGED <<handlerVars, tableVars, harnessVars, opts, input, passes,
                   jointsData, shown, videoVars, reportVars>>

AnglesNext == AnglesCall \/ AnglesStore

SpecAngles == AnglesInit /\ [][AnglesNext]_vars

----------------------------------------------------------------------------
(* Both applications *)

Init == LiveInit \/ VideoInit

Next == LiveNext \/ VideoNext

Spec == Init /\ [][Next]_vars

----------------------------------------------------------------------------
(* Claims about the applications *)

\* the progress of every frame of an angle series that has all the tracked
\* angles, in frame order
RECURSIVE ProgressOfFrames(_, _)
ProgressOfFrames(angles, frames) ==
    IF frames = <<>> THEN <<>>
    ELSE LET r == LoadData(startAngles, finishAngles,
                           AnglesDict(AnglesOfFrame(angles, Head(frames))))
         IN  (IF r.exc = "none" THEN <<r.value>> ELSE <<>>)
             \o ProgressOfFrames(angles, Tail(frames))

ProgressSeries == ProgressOfFrames(anglesData, FramesOf(anglesData))

\* the series reaches the finish extreme and never afterwards the start one
FinishNeverLeft(h) ==
    LET e == FromFirstHigh(Extremes(h))
    IN  e # <<>> /\ \A i \in 1..Len(e) : e[i] = "H"

\* the video run has segmented its series
Segmented ==
    /\ opts.app = "video"
    /\ passes = 1
    /\ pc \in {"compare", "save", "done"} \/ (pc = "raised" /\ exc = "OSError")

\* C3: a series that reaches the finish extreme and never afterwards returns
\* to the start extreme yields no repetition -- the tracker's count is still 0
\* and the segmentation emits no Segment -- and a trailing unfinished DOWN
\* phase never adds a Segment: the segments are as many as the full
\* excursions of the series.
C3_NoTrailingRepetition ==
    /\ (opts.app = "live" /\ FinishNeverLeft(hist))
          => (repetitions = 0 /\ state = "down")
    /\ Segmented =>
          /\ Len(segments) = Excursions(ProgressSeries)
          /\ FinishNeverLeft(ProgressSeries) => segments = <<>>

\* a video whose series starts straight, bends to the finish and ends half way
C3_Witness ==
    /\ Segmented
    /\ Len(ProgressSeries) = 3
    /\ ProgressSeries[1] = R(0)
    /\ ProgressSeries[2] = R(1)
    /\ ~AtStart(ProgressSeries[3])
    /\ segments = <<>>

InUnit(x) == RLeq(R(0), x) /\ RLeq(x, R(1))

\* C6: after every processed frame the progress held by the tracker and the
\* progress handed to the display lie in [0, 1].
C6_ProgressInUnitRange == InUnit(progress) /\ InUnit(shown.progress)

\* C8: a frame whose joints lack a joint of a configured angle, or whose
\* angles lack an angle of the phase table, does not end the run.
C8_FrameFailureIsolated == ~(pc = "raised" /\ exc \in {"KeyError", "IndexError"})

\* C9: for a zero-length bone the angle calculation is guarded -- no division
\* by the zero norm product is made -- and the frame neither ends the run with
\* an arithmetic fault nor changes the rep counter.
C9_DegenerateBoneGuarded ==
    /\ ~fpWarned
    /\ exc \notin {"ZeroDivisionError", "FloatingPointError"}
    /\ (Live("display") /\ \E i \in 1..Len(cur.angles) : IsNaN(cur.angles[i].value))
          => (state = shown.state /\ repetitions = shown.repetitions)

FilesOf(app) == IF app = "live" THEN LiveFiles ELSE VideoFiles

VideoStreaming ==
    opts.app = "video" /\ (pos > 0 \/ pc \notin {"construct", "open", "raised"})

\* C11: the reference segment is loaded once, by the constructor, before any
\* frame is read; when the load fails (the two tables hold different frames)
\* the failure ends everything with no frame read and nothing collected; no
\* step of run loads or changes the reference segment.
C11_ReferenceLoadedOnce ==
    [][/\ VideoStreaming' =>
             /\ reference'.loaded /\ reference'.loads = 1
             /\ reference'.frames \in {t.joints : t \in ReferenceTables}
                                     \cap {t.angles : t \in ReferenceTables}
       /\ (Video("construct") /\ ~reference'.loaded) =>
             /\ pc' = "raised" /\ exc' = "ReferenceIntegrityError"
             /\ pos' = 0 /\ jointsData' = <<>> /\ anglesData' = <<>>
       /\ (opts.app = "video" /\ pc = "raised") => UNCHANGED vars
       /\ (opts.app = "video" /\ pc # "construct") => UNCHANGED reference]_vars

\* a video run that has compared a segment against the reference segment
C11_Witness ==
    /\ opts.app = "video"
    /\ pc = "done"
    /\ compared = 1
    /\ reference = [loads |-> 1, loaded |-> TRUE, frames |-> {1, 2, 3}]

\* a constructor that failed on tables with different frames
C11_FailedWitness ==
    /\ opts.app = "video"
    /\ pc = "raised"
    /\ exc = "ReferenceIntegrityError"
    /\ ~reference.loaded

\* the handler after update was called with every value of h, from a new one
RECURSIVE Replay(_)
Replay(h) ==
    IF h = <<>> THEN NewHandler
    ELSE UpdateState(Replay(SubSeq(h, 1, Len(h) - 1)), h[Len(h)])

\* the progress of the frame being processed, computed from its angles
ProgressOfCur ==
    LoadData(startAngles, finishAngles, AnglesDict(cur.angles)).value

\* the records of the frame being processed are the last ones collected
CurCollected ==
    /\ cur.joints # <<>>
    /\ cur.joints = SubSeq(jointsData, Len(jointsData) - Len(cur.joints) + 1,
                           Len(jointsData))
    /\ cur.angles # <<>>
    /\ cur.angles = SubSeq(anglesData, Len(anglesData) - Len(cur.angles) + 1,
                           Len(anglesData))
    /\ \A i \in 1..Len(cur.angles) : cur.angles[i].frame = FrameNo

\* C12: in the live loop the display of a frame comes after its landmark
\* extraction, angle computation, progress computation and state-machine
\* update, in this order, and shows the progress, state and rep count of the
\* handler after that frame's update; the next frame is read only when the
\* frame with landmarks before it has been displayed.
C12_FrameStepsInOrder ==
    [][opts.app = "live" =>
          /\ pc = "display" =>
                /\ CurCollected
                /\ cur.progress = ProgressOfCur
                /\ hist # <<>> /\ hist[Len(hist)] = cur.progress
                /\ Handler = Replay(hist)
                /\ shown' = [frame |-> FrameNo, progress |-> cur.progress,
                             repetitions |-> Replay(hist).repetitions,
                             state |-> Replay(hist).state]
          /\ pc' = "update" => (pc = "progress" /\ cur'.progress = ProgressOfCur)
          /\ pc' = "display" => (pc = "update" /\ Handler' = UpdateState(Handler, cur.progress))
          /\ (pc' = "pose" \/ pos' # pos) =>
                /\ pc = "read"
                /\ (pos > 0 /\ cur.detected) => shown.frame = FrameNo]_vars

\* the display of the frame that completes a repetition
C12_Witness ==
    /\ Live("show")
    /\ shown.frame = 3
    /\ shown.repetitions = 1
    /\ shown.state = "up"
    /\ shown.progress = R(0)

\* the frame of the input that has number f
FrameOf(f) == input[((f - 1) % Len(input)) + 1]

\* the frames whose records the loop has collected in data
Collected(data) == {data[i].frame : i \in 1..Len(data)}

\* the frames with landmarks that are past the step at
Past(at) ==
    {f \in 1..FrameNo :
        /\ FrameOf(f).detected
        /\ f = FrameNo => pc \notin at}

\* the frame being processed has no landmarks
Undetected == pos > 0 /\ pc \in {"pose", "show"} /\ ~input[pos].detected

\* C13: a frame without landmarks adds no joint and no angle record and
\* leaves the handler's progress, state and rep count as they were: the loop
\* goes on to the stop check (live) or to the next read (video), and the
\* frames with records are exactly the frames with landmarks, each under its
\* own number and with its own coordinates.
C13_UndetectedFrameSkipped ==
    [][opts.app \in {"live", "video"} =>
          /\ (Undetected /\ pc' # "release") =>
                /\ UNCHANGED <<jointsData, anglesData, handlerVars, hist, shown>>
                /\ pc' = IF opts.app = "video" \/ pc = "show"
                         THEN "read" ELSE "show"
          /\ pc' \notin {"raised", "construct", "open"} =>
                /\ Collected(jointsData') = Past({"pose", "joints"})'
                /\ Collected(anglesData') = Past({"pose", "joints", "angles"})'
          /\ \A i \in 1..Len(jointsData') :
                \E j \in 1..Len(FrameOf(jointsData'[i].frame).pose) :
                   /\ FrameOf(jointsData'[i].frame).pose[j].id = jointsData'[i].id
                   /\ FrameOf(jointsData'[i].frame).pose[j].p =
                         <<jointsData'[i].x, jointsData'[i].y, jointsData'[i].z>>]_vars

\* a live run whose second frame has no landmarks and whose third frame
\* completes the repetition begun in the first
C13_Witness ==
    /\ Live("show")
    /\ passes = 1
    /\ pos = 3
    /\ ~input[2].detected
    /\ Collected(anglesData) = {1, 3}
    /\ repetitions = 1

\* the live loop has been left
LiveLeft == opts.app = "live" /\ pc \in {"release", "save"}

Reps(seq) == [i \in 1..Len(seq) |-> seq[i].rep]

\* C15: the segments are compared one at a time in rep order, each once:
\* every comparison appends its results -- all of them for the segment just
\* compared -- to the sink before the next one is taken, nothing already in
\* the sink is removed or changed, and the save comes only when every segment
\* has been compared.
C15_ComparedOnceInOrder ==
    [][opts.app = "video" =>
          /\ compared' # compared =>
                /\ pc = "compare" /\ pc' = "compare"
                /\ compared' = compared + 1
                /\ compared' <= Len(segments)
                /\ \A i \in (Len(results) + 1)..Len(results') :
                      results'[i].rep = compared'
          /\ Len(results') >= Len(results)
          /\ SubSeq(results', 1, Len(results)) = results
          /\ pc \in {"compare", "save"} =>
                /\ UNCHANGED segments
                /\ Reps(segments) = [i \in 1..Len(segments) |-> i]
          /\ (pc' \in {"save", "done"} /\ pc = "compare") =>
                compared = Len(segments)
          /\ pc = "save" => UNCHANGED <<compared, results>>]_vars

\* three segments compared, the first and the last with results
C15_Witness ==
    /\ opts.app = "video"
    /\ pc = "done"
    /\ Len(segments) = 3
    /\ compared = 3
    /\ Reps(results) = <<1, 1, 3>>
    /\ saved = {"results"}

\* the coordinates of the joint id of the frame handed to process
PointOf(id) ==
    LET j == CHOOSE i \in 1..Len(cur.joints) : cur.joints[i].id = id
    IN  <<cur.joints[j].x, cur.joints[j].y, cur.joints[j].z>>

\* the angle name of the angles process has returned
Returned(name) ==
    LET i == CHOOSE k \in 1..Len(cur.angles) : cur.angles[k].name = name
    IN  cur.angles[i].value

Cross(u, v) ==
    <<u[2] * v[3] - u[3] * v[2], u[3] * v[1] - u[1] * v[3],
      u[1] * v[2] - u[2] * v[1]>>

\* ba and bc lie on one line, in the same (s = 1) or in opposite (s = -1)
\* directions
Collinear(A, B, C, s) ==
    /\ Cross(Minus(A, B), Minus(C, B)) = <<0, 0, 0>>
    /\ Sign(Dot(Minus(A, B), Minus(C, B))) = s

\* process has returned the angles of a frame
AnglesReturned == opts.app = "angles" /\ pc = "update"

\* the knee angle lies in [0, 180] and is the same with hip and ankle swapped
C16_RangeAndSymmetry ==
    AnglesReturned =>
       /\ RLeq(R(0), Returned("knee")) /\ RLeq(Returned("knee"), R(180))
       /\ Returned("knee") = Calculate3DAngle(PointOf(3), PointOf(2), PointOf(1))

\* C16: for nonzero bones the computed angle lies in [0, 180] degrees, is the
\* same for (A, B, C) and (C, B, A), is 180 when ba and bc are collinear and
\* opposite and 0 when they are collinear in the same direction.
C16_AngleProperties ==
    /\ C16_RangeAndSymmetry
    /\ (AnglesReturned /\ Collinear(PointOf(1), PointOf(2), PointOf(3), -1))
          => Returned("knee") = R(180)
    /\ (AnglesReturned /\ Collinear(PointOf(1), PointOf(2), PointOf(3), 1))
          => Returned("knee") = R(0)

\* a straight leg along an axis: the angle is 180
C16_AxisWitness ==
    /\ AnglesReturned
    /\ Minus(PointOf(1), PointOf(2)) = <<0, 2, 0>>
    /\ Minus(PointOf(3), PointOf(2)) = <<0, -1, 0>>
    /\ Returned("knee") = R(180)

\* the step that reopens the input
Reopening == Live("read") /\ passes' = passes + 1

\* C17: with loop the input that has run out is opened again and the same
\* processor goes on: the restart changes neither state, progress and rep
\* count nor the collected data, and over all passes the handler is the
\* replay of every update so far and the count the number of excursions of
\* the whole series -- a repetition may begin in one pass and end in the next.
C17_LoopKeepsTracker ==
    [][opts.app = "live" =>
          /\ Reopening =>
                /\ opts.loop /\ pos = Len(input) /\ pos' = 0
                /\ UNCHANGED <<handlerVars, hist, jointsData, anglesData, shown>>
          /\ Handler' = Replay(hist')
          /\ repetitions' = Excursions(hist')]_vars

\* the first pass ends with the knee bent, the first frame of the second pass
\* completes the repetition
C17_Witness ==
    /\ Live("show")
    /\ input = <<Detected(Straight), Detected(Bent)>>
    /\ passes = 2
    /\ pos = 1
    /\ hist = <<R(0), R(1), R(0)>>
    /\ repetitions = 1
    /\ state = "up"

\* the frame handed to process has the three joints of every configured angle
AllJointsGiven ==
    \A i \in 1..Len(opts.angle_names) : \A j \in 1..3 :
       \E k \in 1..Len(cur.joints) : cur.joints[k].id = opts.angle_names[i].ids[j]

\* the angles a frame must yield: one per configured angle, in the order of
\* the configuration, with the frame number of the joints and the angle of
\* the three joints of its triplet
AnglesExpected ==
    [i \in 1..Len(opts.angle_names) |->
        [frame |-> cur.joints[1].frame,
         name |-> opts.angle_names[i].name,
         value |-> Calculate3DAngle(PointOf(opts.angle_names[i].ids[1]),
                                    PointOf(opts.angle_names[i].ids[2]),
                                    PointOf(opts.angle_names[i].ids[3]))]]

Descents(h) == (Len(Collapse(FromFirstHigh(Extremes(h)))) + 1) \div 2

\* C19: over any sequence of update calls the rep count never decreases and
\* grows by at most 1 per call, and only in a call that takes DOWN to UP; a
\* call that takes UP to DOWN leaves the count; and the UP-to-DOWN
\* transitions so far are as many as the rep count in state UP and one more
\* in state DOWN.
C19_CountFollowsTransitions ==
    /\ Descents(hist) = repetitions + (IF state = "down" THEN 1 ELSE 0)
    /\ [][Len(hist') = Len(hist) + 1 =>
            /\ repetitions' \in {repetitions, repetitions + 1}
            /\ repetitions' = repetitions + 1 <=> (state = "down" /\ state' = "up")
            /\ (state = "up" /\ state' = "down") => repetitions' = repetitions
            /\ Descents(hist') = repetitions' + (IF state' = "down" THEN 1 ELSE 0)
            /\ Descents(hist') - Descents(hist)
                  = (IF state = "up" /\ state' = "down" THEN 1 ELSE 0)]_vars

\* two repetitions counted and a third one begun
C19_Witness ==
    /\ opts.app = "none"
    /\ Len(hist) = 5
    /\ repetitions = 2
    /\ state = "down"
    /\ Descents(hist) = 3

\* a step of a live run without loop: a frame is read at most once and in
\* order, the loop is left at the first failed read or at the stop key, the
\* capture is then released, and the save is attempted at most once
WithoutLoopStep ==
    /\ passes' <= 1
    /\ pos' \in {pos, pos + 1}
    /\ pos' = pos + 1 => (pc = "read" /\ pos < Len(input))
    /\ (pc = "read" /\ pos = Len(input)) => pc' = "release"
    /\ pc' = "release" => pc \in {"read", "show"}
    /\ pc = "release" => pc' \in {"save", "done"}
    /\ pc' = "save" => (pc = "release" /\ saved = {})
    /\ pc = "save" => pc' \in {"done", "raised"}

\* the part about runs without loop
C20_WithoutLoop == [][(opts.app = "live" /\ ~opts.loop) => WithoutLoopStep]_vars

\* C20: without loop the frame loop of a finite input ends -- every frame is
\* read at most once, the loop is left at the first failed read or stop key,
\* then the capture is released and the save attempted at most once; with
\* loop every pass over the input reaches the stop check (cv2.waitKey) before
\* the input is opened again, so that the stop key can end the run.
C20_LoopReachesStopCheck ==
    [][opts.app = "live" =>
          /\ ~opts.loop => WithoutLoopStep
          /\ (opts.loop /\ Reopening) => pos > 0]_vars

====
